---- MODULE Spec2Model ----
(***************************************************************************)
(* Model of timewarrior-timesheet-report (src/src/lib.rs).                 *)
(*                                                                         *)
(* Strings that the program compares or orders (project labels, tags) are  *)
(* sequences of byte values.  A timestamp string "%Y%m%dT%H%M%SZ" is the   *)
(* sequence of its six numeric fields, the empty string is << >>.  An      *)
(* instant is a number of seconds since 2024-01-01T00:00:00Z (a Monday).   *)
(* A Decimal with one fractional digit is an integer number of tenths.     *)
(***************************************************************************)
EXTENDS Integers, Sequences, FiniteSets, TLC

WEEKDAYS == 7

(* ---------------------------- bounds ----------------------------------- *)
\* lines the reader supplies in one run
MaxLines == 4
\* times the clock may advance during one run
MaxTicks == 1
\* fractional digits kept by the Decimal division (rust_decimal keeps 28)
DivPrecision == 4

(* ---------------------------- strings ---------------------------------- *)
Quote == 34
Backslash == 92

EmptyStr == << >>
StrA == <<97>>
StrB == <<98>>
StrM == <<109>>
StrAB == <<97, 98>>
StrTotals == <<116, 111, 116, 97, 108, 115>>
StrNull == <<110, 117, 108, 108>>

Abs(n) == IF n < 0 THEN -n ELSE n
Sign(n) == IF n < 0 THEN -1 ELSE IF n > 0 THEN 1 ELSE 0
Max(a, b) == IF a >= b THEN a ELSE b

RECURSIVE Pow10(_)
Pow10(k) == IF k = 0 THEN 1 ELSE 10 * Pow10(k - 1)

\* str::trim_matches('"'): strips every leading and trailing quote
RECURSIVE TrimStart(_, _)
TrimStart(s, c) ==
    IF s # << >> /\ Head(s) = c THEN TrimStart(Tail(s), c) ELSE s

RECURSIVE TrimEnd(_, _)
TrimEnd(s, c) ==
    IF s # << >> /\ s[Len(s)] = c THEN TrimEnd(SubSeq(s, 1, Len(s) - 1), c) ELSE s

trim_matches(s, c) == TrimEnd(TrimStart(s, c), c)

\* Ord for String: byte-wise lexicographic order
RECURSIVE StrLess(_, _)
StrLess(a, b) ==
    IF b = << >> THEN FALSE
    ELSE IF a = << >> THEN TRUE
    ELSE IF Head(a) # Head(b) THEN Head(a) < Head(b)
    ELSE StrLess(Tail(a), Tail(b))

\* the comparison reversed: the keys in descending order
RECURSIVE SortedKeys_descending(_)
SortedKeys_descending(S) ==
    IF S = {} THEN << >>
    ELSE LET m == CHOOSE x \in S : \A y \in S \ {x} : StrLess(y, x)
         IN  <<m>> \o SortedKeys_descending(S \ {m})

\* the keys of a BTreeMap in iteration order
RECURSIVE SortedKeys(_)
SortedKeys(S) ==
    IF S = {} THEN << >>
    ELSE LET m == CHOOSE x \in S : \A y \in S \ {x} : StrLess(x, y)
         IN  <<m>> \o SortedKeys(S \ {m})

(* ------------------------------ JSON ----------------------------------- *)
\* a parsed serde_json::Value
JString(s) == [t |-> "string", s |-> s, elems |-> << >>]
JNull == [t |-> "null", s |-> << >>, elems |-> << >>]
JObject == [t |-> "object", s |-> << >>, elems |-> << >>]
JArray(es) == [t |-> "array", s |-> << >>, elems |-> es]

\* a configuration value as text: valid JSON (and its parse) or not
JsonText(v) == [valid |-> TRUE, v |-> v]
BadJsonText == [valid |-> FALSE, v |-> JNull]

\* the JSON escaping of a string's bytes
RECURSIVE Escape(_)
Escape(s) ==
    IF s = << >> THEN << >>
    ELSE IF Head(s) = Quote \/ Head(s) = Backslash
         THEN <<Backslash, Head(s)>> \o Escape(Tail(s))
         ELSE <<Head(s)>> \o Escape(Tail(s))

\* Value::to_string for the element kinds of the model
to_string(v) ==
    IF v.t = "string" THEN <<Quote>> \o Escape(v.s) \o <<Quote>>
    ELSE IF v.t = "null" THEN StrNull
    ELSE << >>

(* -------------------------- IntervalFactory ---------------------------- *)
None == [some |-> FALSE, v |-> << >>]
Some(v) == [some |-> TRUE, v |-> v]

\* parse_projects: the Result, and valid_projects after the call
parse_projects(valid_projects, json) ==
    IF ~json.valid
    THEN [ok |-> FALSE, err |-> "JsonError", valid_projects |-> valid_projects]
    ELSE IF json.v.t # "array"
    THEN [ok |-> FALSE, err |-> "FailedToParseConfig", valid_projects |-> valid_projects]
    ELSE LET es == json.v.elems
             projects == [i \in 1..Len(es) |-> trim_matches(to_string(es[i]), Quote)]
         IN  [ok |-> TRUE, err |-> "", valid_projects |-> Some(projects)]

\* NaiveDateTime::parse_from_str(datetime, "%Y%m%dT%H%M%SZ") for year 2024
DaysBefore == <<0, 31, 60, 91, 121, 152, 182, 213, 244, 274, 305, 335>>
DaysIn == <<31, 29, 31, 30, 31, 30, 31, 31, 30, 31, 30, 31>>

parse_from_str(datetime) ==
    IF /\ Len(datetime) = 6
       /\ datetime[1] = 2024
       /\ datetime[2] \in 1..12
       /\ datetime[3] \in 1..DaysIn[datetime[2]]
       /\ datetime[4] \in 0..23
       /\ datetime[5] \in 0..59
       /\ datetime[6] \in 0..59
    THEN [ok |-> TRUE,
          t |-> (DaysBefore[datetime[2]] + datetime[3] - 1) * 86400
                + datetime[4] * 3600 + datetime[5] * 60 + datetime[6]]
    ELSE [ok |-> FALSE, t |-> 0]

\* string_to_datetime; now is what Local::now() returns if it is called;
\* read tells whether it was called
string_to_datetime(datetime, now) ==
    IF datetime = EmptyStr
    THEN [ok |-> TRUE, t |-> now, read |-> 1]
    ELSE LET result == parse_from_str(datetime)
         IN  [ok |-> result.ok, t |-> result.t, read |-> 0]

\* start.weekday().num_days_from_monday() in the local timezone
weekday_of(t, local_offset) == ((t + local_offset) \div 86400) % WEEKDAYS

\* the wire form of a record line that is a JSON object: the fields present
\* and their values
NoInclusion == [id |-> 0, start |-> EmptyStr, end |-> EmptyStr, tags |-> << >>,
                annotation |-> EmptyStr]

\* serde_json::from_str::<Inclusion>(raw_json): id and start are required,
\* end, tags and annotation default
from_str_Inclusion(raw_json) ==
    IF raw_json.kind = "json" /\ {"id", "start"} \subseteq raw_json.fields
    THEN [ok |-> TRUE,
          inclusion |->
             [id |-> raw_json.obj.id,
              start |-> raw_json.obj.start,
              end |-> IF "end" \in raw_json.fields THEN raw_json.obj.end ELSE EmptyStr,
              tags |-> IF "tags" \in raw_json.fields THEN raw_json.obj.tags ELSE << >>,
              annotation |-> EmptyStr]]
    ELSE [ok |-> FALSE, inclusion |-> NoInclusion]

\* the condition negated
contains_inverted(vec, x) == ~(\E i \in 1..Len(vec) : vec[i] = x)

\* Vec::contains
contains(vec, x) == \E i \in 1..Len(vec) : vec[i] = x

\* the loop over inclusion.tags; project is the slot, "" when nothing is held
RECURSIVE ScanTags(_, _, _)
ScanTags(valid_projects, tags, project) ==
    IF tags = << >> THEN [ok |-> TRUE, project |-> project]
    ELSE LET tag == Head(tags)
         IN  IF contains(valid_projects, tag)
             THEN IF project = EmptyStr
                  THEN ScanTags(valid_projects, Tail(tags), tag)
                  ELSE [ok |-> FALSE, project |-> project]
             ELSE ScanTags(valid_projects, Tail(tags), project)

Interval_new == [project |-> EmptyStr, total_seconds |-> 0, weekday |-> 0,
                 inclusion |-> NoInclusion]

IntervalErr(kind, reads) ==
    [ok |-> FALSE, err |-> kind, interval |-> Interval_new, reads |-> reads]

\* new_interval without the `projects.len() == 0` test: only a registry that
\* was never loaded is refused
new_interval_nolen(valid_projects, raw_json, clk, local_offset) ==
    IF ~valid_projects.some
    THEN IntervalErr("NoProjectsDefinedInConfig", 0)
    ELSE
    LET decoded == from_str_Inclusion(raw_json)
        inclusion == decoded.inclusion
    IN
    IF ~decoded.ok THEN IntervalErr("FailedToParseInclusions", 0)
    ELSE
    LET scan == ScanTags(valid_projects.v, inclusion.tags, EmptyStr)
    IN
    IF ~scan.ok THEN IntervalErr("IntervalWithMoreThanOneProject", 0)
    ELSE IF scan.project = EmptyStr THEN IntervalErr("IntervalWithNoProjects", 0)
    ELSE
    LET start == string_to_datetime(inclusion.start, clk[1])
    IN
    IF ~start.ok THEN IntervalErr("FailedToParseInclusions", start.read)
    ELSE
    LET end == string_to_datetime(inclusion.end, clk[1 + start.read])
    IN
    IF ~end.ok THEN IntervalErr("FailedToParseInclusions", start.read + end.read)
    ELSE [ok |-> TRUE, err |-> "",
          interval |-> [project |-> scan.project,
                        total_seconds |-> end.t - start.t,
                        weekday |-> weekday_of(start.t, local_offset),
                        inclusion |-> inclusion],
          reads |-> start.read + end.read]

\* new_interval; clk[k] is what the k-th call of Local::now() returns;
\* reads is the number of calls made
new_interval(valid_projects, raw_json, clk, local_offset) ==
    IF ~valid_projects.some \/ Len(valid_projects.v) = 0
    THEN IntervalErr("NoProjectsDefinedInConfig", 0)
    ELSE
    LET decoded == from_str_Inclusion(raw_json)
        inclusion == decoded.inclusion
    IN
    IF ~decoded.ok THEN IntervalErr("FailedToParseInclusions", 0)
    ELSE
    LET scan == ScanTags(valid_projects.v, inclusion.tags, EmptyStr)
    IN
    IF ~scan.ok THEN IntervalErr("IntervalWithMoreThanOneProject", 0)
    ELSE IF scan.project = EmptyStr THEN IntervalErr("IntervalWithNoProjects", 0)
    ELSE
    LET start == string_to_datetime(inclusion.start, clk[1])
    IN
    IF ~start.ok THEN IntervalErr("FailedToParseInclusions", start.read)
    ELSE
    LET end == string_to_datetime(inclusion.end, clk[1 + start.read])
    IN
    IF ~end.ok THEN IntervalErr("FailedToParseInclusions", start.read + end.read)
    ELSE [ok |-> TRUE, err |-> "",
          interval |-> [project |-> scan.project,
                        total_seconds |-> end.t - start.t,
                        weekday |-> weekday_of(start.t, local_offset),
                        inclusion |-> inclusion],
          reads |-> start.read + end.read]

(* ------------------------------ Report --------------------------------- *)
Days == 0..(WEEKDAYS - 1)
Slots == 0..WEEKDAYS

\* `=` written for `+=`: the last interval of a cell replaces the cell
Accumulate_assign(raw_data, interval) ==
    LET project_data == IF interval.project \in DOMAIN raw_data
                        THEN raw_data[interval.project]
                        ELSE [d \in Days |-> 0]
        updated == [project_data EXCEPT ![interval.weekday] = interval.total_seconds]
    IN  [p \in DOMAIN raw_data \cup {interval.project} |->
            IF p = interval.project THEN updated ELSE raw_data[p]]

\* an interval of zero seconds is left out: it opens no entry for its project
Accumulate_skipzero(raw_data, interval) ==
    IF interval.total_seconds = 0 THEN raw_data
    ELSE
    LET project_data == IF interval.project \in DOMAIN raw_data
                        THEN raw_data[interval.project]
                        ELSE [d \in Days |-> 0]
        updated == [project_data EXCEPT ![interval.weekday] = @ + interval.total_seconds]
    IN  [p \in DOMAIN raw_data \cup {interval.project} |->
            IF p = interval.project THEN updated ELSE raw_data[p]]

\* raw_data.entry(project).or_insert(vec![0; WEEKDAYS])[weekday] += total_seconds
Accumulate(raw_data, interval) ==
    LET project_data == IF interval.project \in DOMAIN raw_data
                        THEN raw_data[interval.project]
                        ELSE [d \in Days |-> 0]
        updated == [project_data EXCEPT ![interval.weekday] = @ + interval.total_seconds]
    IN  [p \in DOMAIN raw_data \cup {interval.project} |->
            IF p = interval.project THEN updated ELSE raw_data[p]]

RECURSIVE RawData(_, _)
RawData(raw_data, intervals) ==
    IF intervals = << >> THEN raw_data
    ELSE RawData(Accumulate(raw_data, Head(intervals)), Tail(intervals))

\* Decimal::new(value, 0) / Decimal::new(3600, 0): the quotient with
\* DivPrecision fractional digits, the last one rounded, as its mantissa
DecimalDiv3600(value) ==
    Sign(value) * ((2 * Abs(value) * Pow10(DivPrecision) + 3600) \div 7200)

\* round_dp(1), the banker's rounding: a midpoint goes to the even digit
RoundHalfEven(mantissa) ==
    LET unit == Pow10(DivPrecision - 1)
        q == Abs(mantissa) \div unit
        r == Abs(mantissa) % unit
    IN  Sign(mantissa) * (IF 2 * r > unit \/ (2 * r = unit /\ q % 2 = 1)
                          THEN q + 1 ELSE q)

\* round_dp_with_strategy(1, RoundingStrategy::RoundHalfUp) of a mantissa with
\* DivPrecision fractional digits, in tenths: a midpoint goes away from zero
RoundHalfUp(mantissa) ==
    LET unit == Pow10(DivPrecision - 1)
        q == Abs(mantissa) \div unit
        r == Abs(mantissa) % unit
    IN  Sign(mantissa) * (IF 2 * r >= unit THEN q + 1 ELSE q)

\* the cells of one project row: project_data[weekday] for weekday in 0..7
RECURSIVE SumCells(_, _)
SumCells(cells, n) ==
    IF n = 0 THEN 0 ELSE SumCells(cells, n - 1) + cells[n - 1]

\* the row total taken by rounding the sum of the seconds of the row
ProjectRow_roundsum(value) ==
    LET cells == [weekday \in Days |-> RoundHalfUp(DecimalDiv3600(value[weekday]))]
        project_total == RoundHalfUp(DecimalDiv3600(SumCells(value, WEEKDAYS)))
    IN  [s \in Slots |-> IF s = WEEKDAYS THEN project_total ELSE cells[s]]

ProjectRow(value) ==
    LET cells == [weekday \in Days |-> RoundHalfUp(DecimalDiv3600(value[weekday]))]
        project_total == SumCells(cells, WEEKDAYS)
    IN  [s \in Slots |-> IF s = WEEKDAYS THEN project_total ELSE cells[s]]

\* the loop over raw_data in key order: data and the column totals
RECURSIVE Convert(_, _, _, _)
Convert(raw_data, keys, data, totals) ==
    IF keys = << >> THEN [data |-> data, totals |-> totals]
    ELSE LET key == Head(keys)
             project_data == ProjectRow(raw_data[key])
         IN  Convert(raw_data, Tail(keys),
                     [p \in DOMAIN data \cup {key} |->
                         IF p = key THEN project_data ELSE data[p]],
                     [s \in Slots |-> IF s = WEEKDAYS THEN totals[s]
                                      ELSE totals[s] + project_data[s]])

\* `for weekday in 1..WEEKDAYS`: Monday left out of the grand total
GrandTotal_from1(totals) == SumCells(totals, WEEKDAYS) - totals[0]

\* `for weekday in 0..WEEKDAYS` over the totals row
GrandTotal(totals) == SumCells(totals, WEEKDAYS)

MaxLen(S) == IF S = {} THEN 0 ELSE CHOOSE n \in {Len(x) : x \in S} : \A x \in S : Len(x) <= n

EmptyMap == [p \in {} |-> 0]

from_intervals(intervals) ==
    LET raw_data == RawData(EmptyMap, intervals)
        conv == Convert(raw_data, SortedKeys(DOMAIN raw_data), EmptyMap,
                        [s \in Slots |-> 0])
    IN  [data |-> conv.data,
         totals |-> [conv.totals EXCEPT ![WEEKDAYS] = GrandTotal(conv.totals)],
         column_width |-> 6,
         tag_width |-> Max(MaxLen(DOMAIN raw_data), Len(StrTotals))]

\* one cell as write_project writes it: blank when the value is zero
Cell(val) == IF val = 0 THEN << >> ELSE <<val>>

write_project(report, project, data) ==
    [kind |-> "row", label |-> project, width |-> report.tag_width,
     cells |-> [i \in 1..(WEEKDAYS + 1) |-> Cell(data[i - 1])]]

TextLine(kind, report) ==
    [kind |-> kind, label |-> EmptyStr, width |-> report.tag_width, cells |-> << >>]

\* Display for Report: the lines written, in order
fmt(report) ==
    LET keys == SortedKeys(DOMAIN report.data)
    IN  <<TextLine("header", report), TextLine("separator", report)>>
        \o [i \in 1..Len(keys) |-> write_project(report, keys[i], report.data[keys[i]])]
        \o <<TextLine("separator", report)>>
        \o <<write_project(report, StrTotals, report.totals)>>

(* ------------------------------ input ---------------------------------- *)
\* A trimmed input line: "[", "]", "" (blank), "kv" (KEY : VALUE, not JSON),
\* "nocolon" (no ':' in it, not a JSON object with fields) or "json" (a JSON
\* object, which holds a ':').  key and value are what splitn(2, ':') and the
\* trims yield; fields and obj are the object's fields.
Line(kind, key, value, fields, obj) ==
    [kind |-> kind, key |-> key, value |-> value, fields |-> fields, obj |-> obj]

Plain(kind) == Line(kind, "", BadJsonText, {}, NoInclusion)
KeyValue(key, value) == Line("kv", key, value, {}, NoInclusion)
Record(fields, start, end, tags) ==
    Line("json", "{\"id\"", BadJsonText, fields,
         [id |-> 1, start |-> start, end |-> end, tags |-> tags,
          annotation |-> EmptyStr])

AllFields == {"id", "start", "end", "tags"}

\* timestamps: Monday 2024-01-08 09:00:00Z and instants around it, Tuesday
\* 23:30:00Z, and a string that is no timestamp
T0 == <<2024, 1, 8, 9, 0, 0>>
T0p90 == <<2024, 1, 8, 9, 1, 30>>
T0m180 == <<2024, 1, 8, 8, 57, 0>>
T1 == <<2024, 1, 9, 23, 30, 0>>
T1p900 == <<2024, 1, 9, 23, 45, 0>>
BadStamp == <<2024, 1, 8, 24, 0, 0>>

ProjectsKey == "timesheet.projects"

ProjectsValues ==
    { BadJsonText,
      JsonText(JObject),
      JsonText(JArray(<< >>)),
      JsonText(JArray(<<JString(StrA)>>)),
      JsonText(JArray(<<JString(StrB), JString(StrA)>>)),
      JsonText(JArray(<<JString(StrB), JString(StrAB)>>)),
      JsonText(JArray(<<JString(EmptyStr), JString(StrA)>>)) }

HeaderLines ==
    {KeyValue(ProjectsKey, v) : v \in ProjectsValues}
    \cup {KeyValue("other", BadJsonText), Plain("nocolon")}

TagLists ==
    { << >>, <<StrA>>, <<StrB>>, <<StrM>>, <<StrA, StrM>>, <<StrA, StrB>>,
      <<StrA, StrA>>, <<EmptyStr, StrA>>, <<EmptyStr>>, <<StrAB>> }

RecordLines ==
    {Record(AllFields, T0, T0p90, tags) : tags \in TagLists}
    \cup {Record(AllFields, T0, T0m180, <<StrA>>),
          Record(AllFields, T1, T1p900, <<StrA>>),
          Record(AllFields, T1, T1p900, <<StrB>>),
          Record(AllFields, T0, EmptyStr, <<StrA>>),
          Record({"id", "start", "tags"}, T0, EmptyStr, <<StrB>>),
          Record(AllFields, EmptyStr, EmptyStr, <<StrA>>),
          Record(AllFields, EmptyStr, T0p90, <<StrA>>),
          Record(AllFields, BadStamp, T0p90, <<StrA>>),
          Record(AllFields, T0, BadStamp, <<StrA>>),
          Record({"start", "end", "tags"}, T0, T0p90, <<StrA>>)}

Lines == {Plain("["), Plain("]"), Plain("")} \cup HeaderLines \cup RecordLines

\* the instants the clock can show: it starts three minutes after T0
ClockBase == parse_from_str(T0).t + 180
Clock == {ClockBase + k * 90 : k \in 0..MaxTicks}

\* offsets of the local timezone from UTC, in seconds
LocalOffsets == {0, 3600}

(* ------------------------------- run ----------------------------------- *)
VARIABLES
    options_finished,   \* run: the "[" line was read
    intervals,          \* run: the Intervals built so far
    factory,            \* run: factory.valid_projects
    options,            \* run: the configuration map
    line,               \* run: the line of the current iteration
    result,             \* "running", or what run returned: "Ok" or the error
    report,             \* the Report built at the end of the input
    output,             \* what was written to the output sink
    now,                \* the clock: the last instant it showed
    local_offset,       \* the local timezone of the host
    nlines,             \* lines read from the input so far
    interval_result,    \* what new_interval returned for line, "none" if not called
    reads,              \* calls of Local::now() made for line
    failures,           \* lines whose handling produced an error
    failed_at,          \* nlines when the first error was produced, 0 if none
    first_tp,           \* value of the first timesheet.projects header line
    last_tp             \* value of the last timesheet.projects header line

vars == <<options_finished, intervals, factory, options, line, result, report,
          output, now, local_offset, nlines, interval_result, reads, failures,
          failed_at, first_tp, last_tp>>

NoText == [some |-> FALSE, v |-> BadJsonText]
SomeText(v) == [some |-> TRUE, v |-> v]

NoOptions == [k \in {} |-> BadJsonText]
NoReport == [data |-> EmptyMap, totals |-> [s \in Slots |-> 0],
             column_width |-> 6, tag_width |-> 0]

Init ==
    /\ options_finished = FALSE
    /\ intervals = << >>
    /\ factory = None
    /\ options = NoOptions
    /\ line = Plain("")
    /\ result = "running"
    /\ report = NoReport
    /\ output = << >>
    /\ now = ClockBase
    /\ local_offset \in LocalOffsets
    /\ nlines = 0
    /\ interval_result = "none"
    /\ reads = 0
    /\ failures = 0
    /\ failed_at = 0
    /\ first_tp = NoText
    /\ last_tp = NoText

\* entry(key).or_insert(value): a duplicate key keeps the first value
insert_keep_first(map, key, value) ==
    [k \in DOMAIN map \cup {key} |-> IF k \in DOMAIN map THEN map[k] ELSE value]

\* HashMap::insert: a duplicate key overwrites
insert(map, key, value) ==
    [k \in DOMAIN map \cup {key} |-> IF k = key THEN value ELSE map[k]]

\* a record that does not parse is skipped instead of ending the run
PropagateSkip(err) ==
    IF err = "" \/ err = "FailedToParseInclusions" THEN "running" ELSE err

\* `return Err(error)` and `?`: an error ends the run with that error
Propagate(err) == IF err = "" THEN "running" ELSE err

\* reading one line from the input: the loop head
ReadLine(l) ==
    /\ result = "running"
    /\ nlines < MaxLines
    /\ line' = l
    /\ nlines' = nlines + 1

Outcome(err) ==
    /\ result' = Propagate(err)
    /\ failures' = IF err = "" THEN failures ELSE failures + 1
    /\ failed_at' = IF err # "" /\ failed_at = 0 THEN nlines + 1 ELSE failed_at

\* line == "[": the end of the header
Sentinel ==
    /\ ReadLine(Plain("["))
    /\ options_finished' = TRUE
    /\ LET loaded == IF ProjectsKey \in DOMAIN options
                     THEN parse_projects(factory, options[ProjectsKey])
                     ELSE [ok |-> FALSE, err |-> "NoProjectsDefinedInConfig",
                           valid_projects |-> factory]
       IN  /\ factory' = loaded.valid_projects
           /\ Outcome(loaded.err)
    /\ interval_result' = "none"
    /\ reads' = 0
    /\ UNCHANGED <<intervals, options, report, output, now, local_offset,
                   first_tp, last_tp>>

\* line == "" or line == "]": nothing is done
Skip ==
    /\ \E l \in {Plain("]"), Plain("")} : ReadLine(l)
    /\ Outcome("")
    /\ interval_result' = "none"
    /\ reads' = 0
    /\ UNCHANGED <<options_finished, intervals, factory, options, report, output,
                   now, local_offset, first_tp, last_tp>>

\* any other line before the "[" line: a configuration entry
Header ==
    /\ ~options_finished
    /\ \E l \in HeaderLines \cup RecordLines :
          /\ ReadLine(l)
          /\ IF l.kind = "nocolon"
             THEN /\ Outcome("FailedToParseConfig")
                  /\ UNCHANGED <<options, first_tp, last_tp>>
             ELSE /\ Outcome("")
                  /\ options' = insert(options, l.key, l.value)
                  /\ IF l.key = ProjectsKey
                     THEN /\ first_tp' = IF first_tp.some THEN first_tp
                                         ELSE SomeText(l.value)
                          /\ last_tp' = SomeText(l.value)
                     ELSE UNCHANGED <<first_tp, last_tp>>
    /\ interval_result' = "none"
    /\ reads' = 0
    /\ UNCHANGED <<options_finished, intervals, factory, report, output, now,
                   local_offset>>

\* any other line after the "[" line: an interval record; the clock may
\* advance before each of its readings
Body ==
    /\ options_finished
    /\ \E l \in HeaderLines \cup RecordLines :
       \E t1 \in Clock : \E t2 \in Clock :
          /\ now <= t1 /\ t1 <= t2
          /\ ReadLine(l)
          /\ LET r == new_interval(factory, l, <<t1, t2>>, local_offset)
             IN  /\ t1 = (IF r.reads >= 1 THEN t1 ELSE now)
                 /\ t2 = (IF r.reads >= 2 THEN t2 ELSE t1)
                 /\ now' = t2
                 /\ reads' = r.reads
                 /\ interval_result' = IF r.ok THEN "Ok" ELSE r.err
                 /\ intervals' = IF r.ok THEN Append(intervals, r.interval)
                                 ELSE intervals
                 /\ Outcome(r.err)
    /\ UNCHANGED <<options_finished, factory, options, report, output,
                   local_offset, first_tp, last_tp>>

\* the input is at its end: the report is built and written
Eof ==
    /\ result = "running"
    /\ report' = from_intervals(intervals)
    /\ output' = fmt(report')
    /\ result' = "Ok"
    /\ UNCHANGED <<options_finished, intervals, factory, options, line, now,
                   local_offset, nlines, interval_result, reads, failures,
                   failed_at, first_tp, last_tp>>

Next == Sentinel \/ Skip \/ Header \/ Body \/ Eof

Spec == Init /\ [][Next]_vars

(* ----------------------- helpers of the properties --------------------- *)
Range(seq) == {seq[i] : i \in 1..Len(seq)}

Failed == result \notin {"running", "Ok"}

\* the sum of f[x] over the finite set S
RECURSIVE SumOver(_, _)
SumOver(f, S) ==
    IF S = {} THEN 0
    ELSE LET x == CHOOSE y \in S : TRUE IN f[x] + SumOver(f, S \ {x})

\* the decoded record of the current line
Current == from_str_Inclusion(line)

\* the current line was handed to new_interval with a non-empty registry and
\* decoded as an Inclusion
BuiltInclusion ==
    /\ interval_result # "none"
    /\ factory.some /\ Len(factory.v) > 0
    /\ Current.ok

\* number of tag occurrences of the current record that are registry members
Members ==
    Cardinality({i \in 1..Len(Current.inclusion.tags) :
                    Current.inclusion.tags[i] \in Range(factory.v)})

(* ------------------------------- C1 ------------------------------------ *)
\* C1: for a record that decodes as an Inclusion, built against a non-empty
\* registry, an Interval is produced only if exactly one tag occurrence is a
\* registry member; two or more member occurrences give
\* IntervalWithMoreThanOneProject; IntervalWithNoProjects is returned exactly
\* when no tag is a member.  Stated for every registry, the empty label
\* included.
C1_ExactlyOneMemberTag ==
    BuiltInclusion =>
        /\ interval_result = "Ok" => Members = 1
        /\ Members >= 2 => interval_result = "IntervalWithMoreThanOneProject"
        /\ interval_result = "IntervalWithNoProjects" <=> Members = 0

(* ------------------------------- C2 ------------------------------------ *)
\* C2: a line whose handling produces an error ends the run with that error
\* at that line: it is the only such line, no line is read after it, and
\* nothing is written; something is written only by a run that returned Ok
\* with no line in error.
C2_FailureStopsRun ==
    /\ failures > 0 => /\ Failed
                       /\ failures = 1
                       /\ nlines = failed_at
                       /\ output = << >>
    /\ Failed => failures = 1
    /\ output # << >> => result = "Ok" /\ failures = 0

\* a record fails after an interval was accepted, and nothing is written
C2_Witness ==
    /\ result = "IntervalWithNoProjects"
    /\ Len(intervals) >= 1
    /\ output = << >>

(* ------------------------------- C3 ------------------------------------ *)
\* C3: a run that returns Ok has read a "[" line with the timesheet.projects
\* key present and has loaded the registry; no run succeeds in Header.
C3_SuccessNeedsSentinel ==
    result = "Ok" =>
        /\ options_finished
        /\ ProjectsKey \in DOMAIN options
        /\ factory.some

(* ------------------------------- C4 ------------------------------------ *)
\* C4 as stated: the registry in use after the "[" line is the one parsed
\* from the first timesheet.projects header line.
C4_RegistryFromFirstOccurrence ==
    (options_finished /\ ~Failed) =>
        /\ first_tp.some
        /\ factory = parse_projects(None, first_tp.v).valid_projects

\* C4 amended: the registry in use after the "[" line is the one parsed from
\* the last timesheet.projects header line before the first "[" line, it is
\* loaded before any interval is built, and no later line (a further "[", a
\* further timesheet.projects line) changes it.
C4_RegistryFromLastOccurrence ==
    /\ [](/\ (options_finished /\ ~Failed) =>
                 /\ last_tp.some
                 /\ factory = parse_projects(None, last_tp.v).valid_projects
          /\ Len(intervals) > 0 => options_finished /\ factory.some)
    /\ [][options_finished => factory' = factory /\ last_tp' = last_tp]_vars

\* two header lines gave different values, and an interval was built
C4_Witness ==
    /\ options_finished
    /\ first_tp.some /\ first_tp # last_tp
    /\ Len(intervals) >= 1

(* ------------------------------- C5 ------------------------------------ *)
\* C5: every accumulated Interval has a project that is a registry label and
\* one of the tags of its record, and so has every row of the report.
C5_ProjectInRegistry ==
    /\ \A i \in 1..Len(intervals) :
          /\ intervals[i].project \in Range(factory.v)
          /\ intervals[i].project \in Range(intervals[i].inclusion.tags)
    /\ DOMAIN report.data \subseteq Range(factory.v)

\* a report over two projects, one interval carrying a tag outside the registry
C5_Witness ==
    /\ result = "Ok"
    /\ Cardinality(DOMAIN report.data) = 2
    /\ \E i \in 1..Len(intervals) :
          ~(Range(intervals[i].inclusion.tags) \subseteq Range(factory.v))

(* ------------------------------- C6 ------------------------------------ *)
\* C6: in the report, each project row's total is the sum of its seven
\* weekday cells and each column total is the sum of that column's cells over
\* all project rows, exactly, in tenths of an hour.
C6_RowAndColumnTotals ==
    result = "Ok" =>
        /\ \A p \in DOMAIN report.data :
              report.data[p][WEEKDAYS] =
                 report.data[p][0] + report.data[p][1] + report.data[p][2]
                 + report.data[p][3] + report.data[p][4] + report.data[p][5]
                 + report.data[p][6]
        /\ \A d \in Days :
              report.totals[d] =
                 SumOver([p \in DOMAIN report.data |-> report.data[p][d]],
                         DOMAIN report.data)

\* a row with two non-zero cells, one of them negative, beside another row
C6_Witness ==
    /\ result = "Ok"
    /\ \E p \in DOMAIN report.data : \E d, e \in Days :
          /\ d # e
          /\ report.data[p][d] < 0
          /\ report.data[p][e] > 0

\* two project rows that are non-zero in the same column
C6_ColumnWitness ==
    /\ result = "Ok"
    /\ \E p, q \in DOMAIN report.data : \E d \in Days :
          p # q /\ report.data[p][d] # 0 /\ report.data[q][d] # 0

(* ------------------------------- C7 ------------------------------------ *)
\* C7: the grand total is the sum of the seven column totals, and it is the
\* sum of the row totals of all project rows.
C7_GrandTotal ==
    result = "Ok" =>
        /\ report.totals[WEEKDAYS] = SumOver(report.totals, Days)
        /\ report.totals[WEEKDAYS] =
              SumOver([p \in DOMAIN report.data |-> report.data[p][WEEKDAYS]],
                      DOMAIN report.data)

\* two project rows with non-zero totals, Monday's column total non-zero
C7_Witness ==
    /\ result = "Ok"
    /\ Cardinality(DOMAIN report.data) = 2
    /\ \A p \in DOMAIN report.data : report.data[p][WEEKDAYS] # 0
    /\ report.totals[0] # 0

(* ------------------------------- C8 ------------------------------------ *)
\* the seconds of all intervals of project p that start on weekday d
CellIntervals(p, d) ==
    {i \in 1..Len(intervals) :
        intervals[i].project = p /\ intervals[i].weekday = d}

CellSeconds(p, d) ==
    SumOver([i \in 1..Len(intervals) |-> intervals[i].total_seconds],
            CellIntervals(p, d))

HalfAwayTenths(S) == Sign(S) * ((Abs(S) + 180) \div 360)

\* C8: every cell is the sum S of the seconds of the intervals of its project
\* and weekday, in tenths of an hour sign(S) * floor((|S| + 180) / 360):
\* rounded once, half away from zero.
C8_CellRounding ==
    result = "Ok" =>
        /\ DOMAIN report.data = {intervals[i].project : i \in 1..Len(intervals)}
        /\ \A p \in DOMAIN report.data : \A d \in Days :
              report.data[p][d] = HalfAwayTenths(CellSeconds(p, d))

\* a cell of two intervals that differs from the sum of the intervals rounded
\* one by one
C8_Witness ==
    /\ result = "Ok"
    /\ \E p \in DOMAIN report.data : \E d \in Days :
          /\ Cardinality(CellIntervals(p, d)) = 2
          /\ report.data[p][d] #
                SumOver([i \in 1..Len(intervals) |->
                            HalfAwayTenths(intervals[i].total_seconds)],
                        CellIntervals(p, d))

\* a cell whose seconds are negative and at a midpoint
C8_NegativeWitness ==
    /\ result = "Ok"
    /\ \E p \in DOMAIN report.data : \E d \in Days :
          CellSeconds(p, d) = -180 /\ report.data[p][d] = -1

(* ------------------------------- C9 ------------------------------------ *)
\* the record line an accepted Inclusion was decoded from
WireLine(inclusion) ==
    Record(AllFields, inclusion.start, inclusion.end, inclusion.tags)

\* the lines handed to new_interval in this run, in input order
FedLines ==
    [i \in 1..Len(intervals) |-> WireLine(intervals[i].inclusion)]
    \o (IF interval_result \notin {"none", "Ok"} THEN <<line>> ELSE << >>)

\* the run is over and its "[" line loaded a registry
BodyDone == options_finished /\ factory.some /\ result # "running"

\* the body of run as a function: the lines fed to new_interval in order,
\* clks[i] the clock readings available to line i; what is written
RECURSIVE Rebuild(_, _, _, _)
Rebuild(valid_projects, lines, clks, acc) ==
    IF lines = << >> THEN [ok |-> TRUE, intervals |-> acc]
    ELSE LET r == new_interval(valid_projects, Head(lines), Head(clks), local_offset)
         IN  IF r.ok
             THEN Rebuild(valid_projects, Tail(lines), Tail(clks),
                          Append(acc, r.interval))
             ELSE [ok |-> FALSE, intervals |-> acc]

RunBody(valid_projects, lines, clks) ==
    LET built == Rebuild(valid_projects, lines, clks, << >>)
    IN  IF built.ok THEN fmt(from_intervals(built.intervals)) ELSE << >>

Permuted(lines, f) == [i \in 1..Len(lines) |-> lines[f[i]]]

\* the readings a clock that never goes back can give to n lines
Readings(n) ==
    {c \in [1..n -> Clock \X Clock] :
        /\ \A i \in 1..n : c[i][1] <= c[i][2]
        /\ \A i \in 1..n : \A j \in 1..n : i < j => c[i][2] <= c[j][1]}

\* the line does not make new_interval read the clock
ClockFree(l) ==
    LET d == from_str_Inclusion(l)
    IN  d.ok => d.inclusion.start # EmptyStr /\ d.inclusion.end # EmptyStr

\* C9 as stated: whatever the order of the body lines, and whatever the clock
\* shows while they are read, the same output is written.
C9_AnyOrderSameOutput ==
    BodyDone =>
        \A f \in Permutations(1..Len(FedLines)) :
        \A c \in Readings(Len(FedLines)) :
            RunBody(factory, Permuted(FedLines, f), c) = output

\* C9 amended: when no body line has an empty start or end, so that no build
\* reads the clock, every order of the body lines writes the same output.
C9_AnyOrderSameOutputNoClock ==
    (BodyDone /\ \A i \in 1..Len(FedLines) : ClockFree(FedLines[i])) =>
        \A f \in Permutations(1..Len(FedLines)) :
            RunBody(factory, Permuted(FedLines, f),
                    [i \in 1..Len(FedLines) |-> <<now, now>>]) = output

\* a report of two different intervals of the same project and weekday,
\* neither reading the clock
C9_Witness ==
    /\ result = "Ok"
    /\ Len(intervals) = 2
    /\ intervals[1].project = intervals[2].project
    /\ intervals[1].weekday = intervals[2].weekday
    /\ intervals[1].total_seconds # intervals[2].total_seconds
    /\ \A i \in 1..2 : ClockFree(FedLines[i])

(* ------------------------------- C10 ----------------------------------- *)
\* C10: for one record the clock is read at most once, and only when the
\* record's end is empty or absent, whatever its start.
C10_ClockOnlyForEmptyEnd ==
    interval_result # "none" =>
        /\ reads <= 1
        /\ reads > 0 => Current.inclusion.end = EmptyStr
        /\ Current.inclusion.end # EmptyStr => reads = 0

(* ------------------------------- C11 ----------------------------------- *)
EmptyArrayText == JsonText(JArray(<< >>))

\* the "[" line was read with `timesheet.projects : []` in the header
EmptyArrayLoaded ==
    options_finished /\ last_tp.some /\ last_tp.v = EmptyArrayText

\* C11: the empty projects array is loaded at the "[" line without error, as
\* a registry without labels; after it every line handed to new_interval,
\* an Inclusion or not, fails with NoProjectsDefinedInConfig and no Interval
\* is built; the run fails only by such a build, so without a body record it
\* does not fail.
C11_EmptyArrayFailsEveryBuild ==
    EmptyArrayLoaded =>
        /\ factory = Some(<< >>)
        /\ intervals = << >>
        /\ interval_result # "none" =>
              /\ interval_result = "NoProjectsDefinedInConfig"
              /\ result = "NoProjectsDefinedInConfig"
        /\ Failed => interval_result # "none"

\* a record that decodes as an Inclusion is refused after the empty array
C11_Witness ==
    /\ EmptyArrayLoaded
    /\ Current.ok
    /\ Current.inclusion.tags # << >>
    /\ result = "NoProjectsDefinedInConfig"

\* the run with the empty array and no body record returned Ok
C11_SuccessWitness ==
    /\ EmptyArrayLoaded
    /\ interval_result = "none"
    /\ result = "Ok"

(* ------------------------------- C12 ----------------------------------- *)
\* the project rows of what was written: the lines between the separators
ProjectRows == SubSeq(output, 3, Len(output) - 2)

Min(a, b) == IF a <= b THEN a ELSE b

\* a is before b in lexicographic order: at the first position where they
\* differ a has the smaller byte, or a is a proper prefix of b
LexBefore(a, b) ==
    \E k \in 0..Min(Len(a), Len(b)) :
        /\ \A i \in 1..k : a[i] = b[i]
        /\ \/ k = Len(a) /\ k < Len(b)
           \/ k < Len(a) /\ k < Len(b) /\ a[k + 1] < b[k + 1]

\* C12: in the rendered report the project rows are in strictly ascending
\* lexicographic order of their labels, so no label has two rows, whatever
\* the order of the labels in the projects array and of the interval lines.
C12_RowsAscending ==
    result = "Ok" =>
        /\ \A i \in 1..Len(ProjectRows) : ProjectRows[i].kind = "row"
        /\ \A i \in 1..Len(ProjectRows) : \A j \in 1..Len(ProjectRows) :
              i < j => LexBefore(ProjectRows[i].label, ProjectRows[j].label)

\* two rows, "ab" before "b", from a registry and an input that name "b" first
C12_Witness ==
    /\ result = "Ok"
    /\ factory.v = <<StrB, StrAB>>
    /\ Len(intervals) = 2
    /\ intervals[1].project = StrB
    /\ intervals[2].project = StrAB
    /\ Len(ProjectRows) = 2
    /\ ProjectRows[1].label = StrAB

(* ------------------------------- C13 ----------------------------------- *)
\* the projects with at least one accepted interval
ProjectsWithIntervals == {intervals[i].project : i \in 1..Len(intervals)}

BlankCells == [i \in 1..(WEEKDAYS + 1) |-> << >>]

\* C13: the project rows of the report are exactly the projects with at
\* least one accepted interval, one row each: a registry label without an
\* interval has no row, and a project whose cells are all zero has a row of
\* eight blank cells; with no interval there is no project row and the
\* totals row is eight blank cells.
C13_RowsAreProjectsWithIntervals ==
    result = "Ok" =>
        /\ {ProjectRows[i].label : i \in 1..Len(ProjectRows)} = ProjectsWithIntervals
        /\ Len(ProjectRows) = Cardinality(ProjectsWithIntervals)
        /\ \A i \in 1..Len(ProjectRows) :
              (\A d \in Days : HalfAwayTenths(CellSeconds(ProjectRows[i].label, d)) = 0)
                 => ProjectRows[i].cells = BlankCells
        /\ intervals = << >> =>
              /\ Len(output) = 4
              /\ output[4].label = StrTotals
              /\ output[4].cells = BlankCells

\* a registry label without a row beside a project of one interval of zero
\* seconds, whose row is blank
C13_Witness ==
    /\ result = "Ok"
    /\ \E p \in Range(factory.v) : p \notin ProjectsWithIntervals
    /\ Len(intervals) = 1
    /\ intervals[1].total_seconds = 0
    /\ Len(ProjectRows) = 1
    /\ ProjectRows[1].cells = BlankCells

\* a project whose two intervals cancel to zero has a blank row
C13_CancelWitness ==
    /\ result = "Ok"
    /\ Len(intervals) = 2
    /\ intervals[1].total_seconds # 0
    /\ Len(ProjectRows) = 1
    /\ ProjectRows[1].cells = BlankCells

\* the input without a body record: no project row, a blank totals row
C13_EmptyBodyWitness ==
    /\ result = "Ok"
    /\ options_finished
    /\ intervals = << >>
    /\ Len(output) = 4
====
